---- MODULE Spec2Model ----
(***************************************************************************)
(* Bike-share analytics assistant: the natural-language-to-SQL pipeline    *)
(* (SemanticMapper, SQLGenerator), its orchestrator (QueryService) and the *)
(* HTTP server in front of it.                                             *)
(*                                                                         *)
(* Strings are TLA+ strings; TLC evaluates Len, \o and SubSeq on them, so  *)
(* String.includes, toLowerCase, split and join are computed character by  *)
(* character as the JavaScript does.                                       *)
(***************************************************************************)
EXTENDS Integers, Sequences, FiniteSets, TLC

VARIABLES
    schema,         \* SemanticMapper.schema
    columnCache,    \* SemanticMapper.columnCache : cache key -> ColumnMapping[]
    isInitialized,  \* QueryService.isInitialized
    calls,          \* the QueryService calls in flight or finished
    fetchCount,     \* number of DatabaseService.getSchema invocations
    setSchemaCount, \* number of SemanticMapper.setSchema invocations
    question,       \* the question handed to SQLGenerator.generateSQL
    env,            \* the process's clock and time zone
    lastCall        \* what the latest mapper / generator call did and returned

vars == <<schema, columnCache, isInitialized, calls, fetchCount,
          setSchemaCount, question, env, lastCall>>

-----------------------------------------------------------------------------
(* Bounds *)

MaxWords == 2       \* fragments concatenated into one question
MaxCache == 2       \* entries of the column-match cache in the mapper runs
MaxCalls == 2       \* QueryService calls in one run

-----------------------------------------------------------------------------
(* JavaScript string primitives *)

Ch(s, i) == SubSeq(s, i, i)

UpperAlpha == "ABCDEFGHIJKLMNOPQRSTUVWXYZ"
LowerAlpha == "abcdefghijklmnopqrstuvwxyz"
Digits == "0123456789"

CharsOf(s) == {Ch(s, i) : i \in 1..Len(s)}

UpperChars == CharsOf(UpperAlpha)
LowerChars == CharsOf(LowerAlpha)

LowerChar(c) ==
    IF c \in UpperChars
    THEN Ch(LowerAlpha, CHOOSE i \in 1..26 : Ch(UpperAlpha, i) = c)
    ELSE c

UpperChar(c) ==
    IF c \in LowerChars
    THEN Ch(UpperAlpha, CHOOSE i \in 1..26 : Ch(LowerAlpha, i) = c)
    ELSE c

\* the characters matched by \s and by \w
WhiteSpace == {" "}
WordChars == UpperChars \cup LowerChars \cup CharsOf(Digits) \cup {"_"}

\* the character-wise maps of a string; the string is halved at each level
RECURSIVE MapChars(_, _)
MapChars(s, how) ==
    IF Len(s) = 0 THEN ""
    ELSE IF Len(s) = 1
    THEN CASE how = "lower" -> LowerChar(s)
           [] how = "upper" -> UpperChar(s)
           [] how = "words" -> (IF s \in WordChars \cup WhiteSpace THEN s ELSE " ")
           [] how = "solid" -> (IF s \in WhiteSpace THEN "" ELSE s)
    ELSE LET half == Len(s) \div 2 IN
         MapChars(SubSeq(s, 1, half), how) \o MapChars(SubSeq(s, half + 1, Len(s)), how)

toLowerCase(s) ==
    IF \A i \in 1..Len(s) : Ch(s, i) \notin UpperChars THEN s ELSE MapChars(s, "lower")
toUpperCase(s) == MapChars(s, "upper")

\* s.replace(/[^\w\s]/g, ' ')
replaceNonWord(s) == MapChars(s, "words")

\* s.replace(/\s+/g, '')
removeWhitespace(s) == MapChars(s, "solid")

\* String.prototype.includes
includes(s, t) ==
    \E i \in 1..(Len(s) - Len(t) + 1) : SubSeq(s, i, i + Len(t) - 1) = t

\* String.prototype.trim
trim(s) ==
    LET solid == {i \in 1..Len(s) : Ch(s, i) \notin WhiteSpace} IN
    IF solid = {} THEN ""
    ELSE SubSeq(s, CHOOSE i \in solid : \A j \in solid : i <= j,
                   CHOOSE i \in solid : \A j \in solid : i >= j)

\* the maximal runs of non-white-space characters of s that start at or after i
RECURSIVE runsFrom(_, _)
runsFrom(s, i) ==
    LET starts == {j \in i..Len(s) : Ch(s, j) \notin WhiteSpace} IN
    IF starts = {} THEN <<>>
    ELSE LET first == CHOOSE j \in starts : \A k \in starts : j <= k
             ends == {j \in first..Len(s) : j = Len(s) \/ Ch(s, j + 1) \in WhiteSpace}
             last == CHOOSE j \in ends : \A k \in ends : j <= k
         IN  <<SubSeq(s, first, last)>> \o runsFrom(s, last + 1)

\* s.split(/\s+/): the pieces between runs of white space; a leading or a
\* trailing run leaves an empty piece at that end
splitWhitespace(s) ==
    IF s = "" THEN <<"">>
    ELSE (IF Ch(s, 1) \in WhiteSpace THEN <<"">> ELSE <<>>)
         \o runsFrom(s, 1)
         \o (IF Ch(s, Len(s)) \in WhiteSpace THEN <<"">> ELSE <<>>)

\* Array.prototype.join
RECURSIVE join(_, _)
join(arr, sep) ==
    IF Len(arr) = 0 THEN ""
    ELSE IF Len(arr) = 1 THEN arr[1]
    ELSE arr[1] \o sep \o join(Tail(arr), sep)

\* Array.prototype.indexOf, 1-based, 0 when absent
indexOf(arr, x) ==
    IF \E i \in 1..Len(arr) : arr[i] = x
    THEN CHOOSE i \in 1..Len(arr) : arr[i] = x /\ \A j \in 1..(i - 1) : arr[j] # x
    ELSE 0

Range(arr) == {arr[i] : i \in 1..Len(arr)}

-----------------------------------------------------------------------------
(* SemanticMapper: intent and tokens *)

COUNT == "count"
AVERAGE == "average"
SUM == "sum"
MAX == "max"
MIN == "min"
LIST == "list"
FILTER == "filter"

QueryIntent == {COUNT, AVERAGE, SUM, MAX, MIN, LIST, FILTER}

\* detectIntent with the COUNT test moved in front of the distance test
detectIntentCountFirst(q) ==
    LET lowerQuestion == toLowerCase(q) IN
    IF includes(lowerQuestion, "count") \/ includes(lowerQuestion, "how many")
    THEN COUNT
    ELSE IF includes(lowerQuestion, "kilometres") \/ includes(lowerQuestion, "km")
            \/ includes(lowerQuestion, "distance") \/ includes(lowerQuestion, "miles")
    THEN SUM
    ELSE IF includes(lowerQuestion, "average") \/ includes(lowerQuestion, "avg")
    THEN AVERAGE
    ELSE IF includes(lowerQuestion, "sum") \/ includes(lowerQuestion, "total")
    THEN SUM
    ELSE IF includes(lowerQuestion, "maximum") \/ includes(lowerQuestion, "max")
            \/ includes(lowerQuestion, "most")
    THEN MAX
    ELSE IF includes(lowerQuestion, "minimum") \/ includes(lowerQuestion, "min")
            \/ includes(lowerQuestion, "least")
    THEN MIN
    ELSE IF includes(lowerQuestion, "which") \/ includes(lowerQuestion, "what")
            \/ includes(lowerQuestion, "list")
    THEN LIST
    ELSE FILTER

detectIntent(q) ==
    LET lowerQuestion == toLowerCase(q) IN
    IF includes(lowerQuestion, "kilometres") \/ includes(lowerQuestion, "km")
       \/ includes(lowerQuestion, "distance") \/ includes(lowerQuestion, "miles")
    THEN SUM
    ELSE IF includes(lowerQuestion, "average") \/ includes(lowerQuestion, "avg")
    THEN AVERAGE
    ELSE IF includes(lowerQuestion, "sum") \/ includes(lowerQuestion, "total")
    THEN SUM
    ELSE IF includes(lowerQuestion, "maximum") \/ includes(lowerQuestion, "max")
            \/ includes(lowerQuestion, "most")
    THEN MAX
    ELSE IF includes(lowerQuestion, "minimum") \/ includes(lowerQuestion, "min")
            \/ includes(lowerQuestion, "least")
    THEN MIN
    ELSE IF includes(lowerQuestion, "count") \/ includes(lowerQuestion, "how many")
    THEN COUNT
    ELSE IF includes(lowerQuestion, "which") \/ includes(lowerQuestion, "what")
            \/ includes(lowerQuestion, "list")
    THEN LIST
    ELSE FILTER

stopWords ==
    {"the", "a", "an", "and", "or", "but", "in", "on", "at", "to", "for", "of", "with", "by",
     "what", "when", "where", "why", "how", "which", "who", "was", "were", "is", "are", "be",
     "been", "being", "have", "has", "had", "do", "does", "did", "will", "would", "could",
     "should"}

\* .filter(word => word.length > 2 && !stopWords.has(word))
RECURSIVE filterMeaningful(_)
filterMeaningful(arr) ==
    IF Len(arr) = 0 THEN <<>>
    ELSE (IF Len(arr[1]) > 2 /\ arr[1] \notin stopWords THEN <<arr[1]>> ELSE <<>>)
         \o filterMeaningful(Tail(arr))

\* the .filter that removes duplicates, removing nothing
filterEveryIndex(arr, i) == arr

\* .filter((word, index, arr) => arr.indexOf(word) === index)
RECURSIVE filterFirstSeen(_, _)
filterFirstSeen(arr, i) ==
    IF i > Len(arr) THEN <<>>
    ELSE (IF indexOf(arr, arr[i]) = i THEN <<arr[i]>> ELSE <<>>)
         \o filterFirstSeen(arr, i + 1)

extractUserWords(q) ==
    filterFirstSeen(
        filterMeaningful(splitWhitespace(replaceNonWord(toLowerCase(q)))), 1)

-----------------------------------------------------------------------------
(* Similarity scores are exact fractions <<numerator, denominator>> in lowest
   terms (the JavaScript uses doubles). *)

RECURSIVE GCD(_, _)
GCD(a, b) == IF b = 0 THEN a ELSE GCD(b, a % b)

Rat(n, d) == LET g == GCD(n, d) IN IF n = 0 THEN <<0, 1>> ELSE <<n \div g, d \div g>>
RatGeq(a, b) == a[1] * b[2] >= b[1] * a[2]
RatGt(a, b) == a[1] * b[2] > b[1] * a[2]
RatMax(a, b) == IF RatGeq(a, b) THEN a ELSE b
RatAdd(a, b) == Rat(a[1] * b[2] + b[1] * a[2], a[2] * b[2])

DefaultMinSimilarity == Rat(3, 10)
DirectMatchScore == Rat(9, 10)
SynonymScore == Rat(8, 10)
TableBonus == Rat(1, 10)

\* string-similarity's compareTwoStrings: the Dice coefficient of the two
\* strings' bigram multisets
bigramCount(s, b) == Cardinality({i \in 1..(Len(s) - 1) : SubSeq(s, i, i + 1) = b})

RECURSIVE sumMin(_, _, _)
sumMin(bigrams, first, second) ==
    IF bigrams = {} THEN 0
    ELSE LET b == CHOOSE x \in bigrams : TRUE
             c1 == bigramCount(first, b)
             c2 == bigramCount(second, b)
         IN  (IF c1 < c2 THEN c1 ELSE c2) + sumMin(bigrams \ {b}, first, second)

compareTwoStrings(a, b) ==
    LET first == removeWhitespace(a)
        second == removeWhitespace(b)
    IN  IF first = second THEN Rat(1, 1)
        ELSE IF Len(first) < 2 \/ Len(second) < 2 THEN Rat(0, 1)
        ELSE LET intersectionSize ==
                     sumMin({SubSeq(first, i, i + 1) : i \in 1..(Len(first) - 1)},
                            first, second)
             IN  Rat(2 * intersectionSize, Len(first) + Len(second) - 2)

-----------------------------------------------------------------------------
(* Inputs *)

Column(name, type) == [column_name |-> name, data_type |-> type]

\* the tables the generator's fixed fragments refer to
ProductionSchema ==
    <<[table_name |-> "daily_weather",
       columns |-> <<Column("weather_date", "date"),
                     Column("precipitation_mm", "numeric")>>],
      [table_name |-> "stations",
       columns |-> <<Column("station_id", "integer"),
                     Column("station_name", "character varying")>>],
      [table_name |-> "trips",
       columns |-> <<Column("started_at", "timestamp without time zone"),
                     Column("ended_at", "timestamp without time zone"),
                     Column("start_station_id", "integer"),
                     Column("trip_distance_km", "numeric"),
                     Column("rider_gender", "character varying")>>]>>

\* the mock schema of the unit tests
MockSchema ==
    <<[table_name |-> "trips",
       columns |-> <<Column("id", "integer"),
                     Column("start_station_name", "varchar"),
                     Column("duration_minutes", "integer"),
                     Column("distance_km", "decimal"),
                     Column("user_gender", "varchar"),
                     Column("weather_condition", "varchar"),
                     Column("start_time", "timestamp")>>]>>

\* the minimal schema of the edge-case tests
MinimalSchema ==
    <<[table_name |-> "trips", columns |-> <<Column("id", "integer")>>]>>

EmptySchema == <<>>

Schemas == {ProductionSchema, MockSchema, MinimalSchema, EmptySchema}

\* the process's clock (year and month of new Date()) and its time zone offset
Envs ==
    {[year |-> 2026, month |-> 1, tz |-> 0],
     [year |-> 2024, month |-> 3, tz |-> 5],
     [year |-> 2025, month |-> 7, tz |-> -2]}

\* the phrases questions are made of
Fragments ==
    <<"How many", "kilometres", "women", "men", "rainy days", "in June 2025",
      "first week", "last month", "Congress Avenue", "most", "average ride time",
      "least", "total", "Which station", "trips", "'; DROP TABLE trips; --",
      "constructor", "unicorn data", "name">>

\* the token lists and thresholds handed to findBestColumnMatches directly
TokenLists ==
    {<<>>, <<"station">>, <<"time">>, <<"station", "time">>, <<"time", "station">>,
     <<"trips", "constructor">>}

MinSimilarities == {Rat(3, 10), Rat(9, 10)}

\* the ascending index lists of at most n fragments from position i on
RECURSIVE SelectionsFrom(_, _)
SelectionsFrom(i, n) ==
    IF n = 0 THEN {<<>>}
    ELSE {<<>>} \cup UNION {{<<j>> \o rest : rest \in SelectionsFrom(j + 1, n - 1)} :
                              j \in i..Len(Fragments)}

reverse(arr) == [i \in 1..Len(arr) |-> arr[Len(arr) + 1 - i]]

phrase(selection) == join([i \in 1..Len(selection) |-> Fragments[selection[i]]], " ")

\* a question is up to MaxWords distinct fragments, in the order listed or reversed
Questions ==
    {phrase(selection) : selection \in SelectionsFrom(1, MaxWords)}
    \cup {phrase(reverse(selection)) : selection \in SelectionsFrom(1, MaxWords)}

-----------------------------------------------------------------------------
(* SemanticMapper: column matching *)

synonymMap ==
    [w \in {"time", "duration", "minutes", "station", "docking", "point", "departure",
            "start", "kilometres", "km", "distance", "women", "female", "rainy", "rain",
            "congress", "avenue"} |->
        CASE w = "time" -> <<"duration", "minutes", "hours", "ride_time">>
          [] w = "duration" -> <<"time", "minutes", "hours", "ride_time">>
          [] w = "minutes" -> <<"time", "duration", "hours", "ride_time">>
          [] w = "station" -> <<"docking", "point", "stop", "hub", "avenue">>
          [] w = "docking" -> <<"station", "point", "stop", "hub", "avenue">>
          [] w = "point" -> <<"station", "docking", "stop", "hub", "avenue">>
          [] w = "departure" -> <<"start", "beginning", "leave", "depart">>
          [] w = "start" -> <<"departure", "beginning", "leave", "depart">>
          [] w = "kilometres" -> <<"km", "distance", "miles", "length">>
          [] w = "km" -> <<"kilometres", "distance", "miles", "length">>
          [] w = "distance" -> <<"kilometres", "km", "miles", "length">>
          [] w = "women" -> <<"female", "woman", "girl">>
          [] w = "female" -> <<"women", "woman", "girl">>
          [] w = "rainy" -> <<"rain", "wet", "stormy", "precipitation">>
          [] w = "rain" -> <<"rainy", "wet", "stormy", "precipitation">>
          [] w = "congress" -> <<"avenue", "street", "road">>
          [] w = "avenue" -> <<"congress", "street", "road">>]

\* lower-case keys an object literal inherits from Object.prototype: looking
\* one up yields a truthy value that is not iterable
InheritedKeys == {"constructor", "__proto__"}

NotIterable == <<"TypeError: synonyms is not iterable">>

getSynonyms(word) ==
    LET key == toLowerCase(word) IN
    IF key \in DOMAIN synonymMap THEN synonymMap[key]
    ELSE IF key \in InheritedKeys THEN NotIterable
    ELSE <<>>

\* one (column, word) pair of the inner loop of findBestColumnMatches
similarityOf(word, columnName, tableName) ==
    LET direct == IF includes(columnName, word) \/ includes(word, columnName)
                  THEN DirectMatchScore ELSE Rat(0, 1)
        synonyms == getSynonyms(word)
        viaSynonym ==
            IF \E i \in 1..Len(synonyms) :
                   includes(columnName, synonyms[i]) \/ includes(synonyms[i], columnName)
            THEN RatMax(direct, SynonymScore) ELSE direct
        base == RatMax(viaSynonym, compareTwoStrings(word, columnName))
    IN  IF includes(tableName, word) \/ includes(word, tableName)
        THEN RatAdd(base, TableBonus) ELSE base

\* the (table, column) pairs in the order of the two outer loops
RECURSIVE columnsOf(_)
columnsOf(tables) ==
    IF Len(tables) = 0 THEN <<>>
    ELSE [i \in 1..Len(tables[1].columns) |->
             [table |-> toLowerCase(tables[1].table_name),
              column |-> toLowerCase(tables[1].columns[i].column_name),
              type |-> tables[1].columns[i].data_type]]
         \o columnsOf(Tail(tables))

\* every (word, column, table) triple the inputs can produce, scored once
AllWords ==
    UNION {Range(extractUserWords(f)) : f \in Range(Fragments)} \cup UNION {Range(t) : t \in TokenLists}

AllColumns == UNION {Range(columnsOf(sch)) : sch \in Schemas}

similarityTable ==
    [w \in AllWords, c \in {<<col.column, col.table>> : col \in AllColumns} |->
        similarityOf(w, c[1], c[2])]

RECURSIVE matchWords(_, _, _)
matchWords(col, userWords, minSimilarity) ==
    IF Len(userWords) = 0 THEN <<>>
    ELSE LET similarity == similarityTable[userWords[1], <<col.column, col.table>>] IN
         (IF RatGeq(similarity, minSimilarity)
          THEN <<[table |-> col.table, column |-> col.column,
                  similarity |-> similarity, type |-> col.type]>>
          ELSE <<>>)
         \o matchWords(col, Tail(userWords), minSimilarity)

RECURSIVE matchColumns(_, _, _)
matchColumns(cols, userWords, minSimilarity) ==
    IF Len(cols) = 0 THEN <<>>
    ELSE matchWords(cols[1], userWords, minSimilarity)
         \o matchColumns(Tail(cols), userWords, minSimilarity)

\* mappings.sort((a, b) => b.similarity - a.similarity): stable, descending
RECURSIVE insertSorted(_, _)
insertSorted(sorted, m) ==
    IF Len(sorted) = 0 THEN <<m>>
    ELSE IF RatGt(m.similarity, sorted[1].similarity) THEN <<m>> \o sorted
    ELSE <<sorted[1]>> \o insertSorted(Tail(sorted), m)

\* a sort that leaves the list in discovery order
unsorted(mappings, n) == mappings

RECURSIVE sortBySimilarity(_, _)
sortBySimilarity(mappings, n) ==
    IF n = 0 THEN <<>>
    ELSE insertSorted(sortBySimilarity(mappings, n - 1), mappings[n])

cacheKeyOf(userWords) == join(userWords, "|")

\* a lookup that never finds an entry
cacheHasNothing(cache, cacheKey) == FALSE

\* this.columnCache.has(cacheKey)
cacheHas(cache, cacheKey) == cacheKey \in DOMAIN cache

\* findBestColumnMatches as a function of the mapper's state: the returned
\* list, whether it threw, the cache afterwards and the number of scores computed
findBestColumnMatches(sch, cache, userWords, minSimilarity) ==
    LET cacheKey == cacheKeyOf(userWords) IN
    IF cacheHas(cache, cacheKey)
    THEN [threw |-> FALSE, mappings |-> cache[cacheKey], cache |-> cache,
          hit |-> TRUE, scored |-> 0]
    ELSE LET cols == columnsOf(sch) IN
         IF Len(cols) > 0 /\ \E i \in 1..Len(userWords) : getSynonyms(userWords[i]) = NotIterable
         THEN \* the for...of over the synonyms throws at the first such word
              [threw |-> TRUE, mappings |-> <<>>, cache |-> cache, hit |-> FALSE,
               scored |-> (CHOOSE i \in 1..Len(userWords) :
                               /\ getSynonyms(userWords[i]) = NotIterable
                               /\ \A j \in 1..(i - 1) :
                                      getSynonyms(userWords[j]) # NotIterable) - 1]
         ELSE LET found == matchColumns(cols, userWords, minSimilarity)
                  mappings == sortBySimilarity(found, Len(found))
              IN  [threw |-> FALSE, mappings |-> mappings,
                   cache |-> [k \in DOMAIN cache \cup {cacheKey} |->
                                 IF k = cacheKey THEN mappings ELSE cache[k]],
                   hit |-> FALSE, scored |-> Len(cols) * Len(userWords)]

-----------------------------------------------------------------------------
(* SQLGenerator: dates.  A Date is <<year, month, day, hours, minutes,
   seconds>> in local time; env.tz is Date.getTimezoneOffset() in hours. *)

isLeapYear(y) == (y % 4 = 0 /\ y % 100 # 0) \/ y % 400 = 0

daysInMonth(y, m) ==
    IF m = 2 THEN (IF isLeapYear(y) THEN 29 ELSE 28)
    ELSE IF m \in {4, 6, 9, 11} THEN 30 ELSE 31

nextDay(d) ==
    IF d[3] < daysInMonth(d[1], d[2]) THEN <<d[1], d[2], d[3] + 1>>
    ELSE IF d[2] < 12 THEN <<d[1], d[2] + 1, 1>>
    ELSE <<d[1] + 1, 1, 1>>

previousDay(d) ==
    IF d[3] > 1 THEN <<d[1], d[2], d[3] - 1>>
    ELSE IF d[2] > 1 THEN <<d[1], d[2] - 1, daysInMonth(d[1], d[2] - 1)>>
    ELSE <<d[1] - 1, 12, 31>>

RECURSIVE padStart(_, _)
padStart(n, width) ==
    IF width = 0 THEN ""
    ELSE padStart(n \div 10, width - 1) \o Ch(Digits, (n % 10) + 1)

\* date.toISOString().slice(0, 19).replace('T', ' ')
toTimestamp(date, tz) ==
    LET h == date[4] + tz
        day == IF h >= 24 THEN nextDay(<<date[1], date[2], date[3]>>)
               ELSE IF h < 0 THEN previousDay(<<date[1], date[2], date[3]>>)
               ELSE <<date[1], date[2], date[3]>>
        hours == IF h >= 24 THEN h - 24 ELSE IF h < 0 THEN h + 24 ELSE h
    IN  padStart(day[1], 4) \o "-" \o padStart(day[2], 2) \o "-" \o padStart(day[3], 2)
        \o " " \o padStart(hours, 2) \o ":" \o padStart(date[5], 2)
        \o ":" \o padStart(date[6], 2)

\* <<>> is null, otherwise <<[start, end]>>
extractDateRange(q, e) ==
    LET lowerQuestion == toLowerCase(q) IN
    IF includes(lowerQuestion, "last month")
    THEN LET y == IF e.month = 1 THEN e.year - 1 ELSE e.year
             m == IF e.month = 1 THEN 12 ELSE e.month - 1
         IN  <<[start |-> <<y, m, 1, 0, 0, 0>>,
                end |-> <<y, m, daysInMonth(y, m), 23, 59, 59>>]>>
    ELSE IF includes(lowerQuestion, "first week") /\ includes(lowerQuestion, "june")
    THEN <<[start |-> <<2025, 6, 1, 0, 0, 0>>, end |-> <<2025, 6, 7, 23, 59, 59>>]>>
    ELSE IF includes(lowerQuestion, "june 2025") \/ includes(lowerQuestion, "june")
    THEN <<[start |-> <<2025, 6, 1, 0, 0, 0>>, end |-> <<2025, 6, 30, 23, 59, 59>>]>>
    ELSE <<>>

-----------------------------------------------------------------------------
(* SQLGenerator: the clause builders.  A bound parameter is [kind, text]:
   kind is the JavaScript type of the value, text its printed form. *)

StringParam(s) == [kind |-> "string", text |-> s]
NumberParam(s) == [kind |-> "number", text |-> s]

numericTypes == <<"integer", "decimal", "numeric", "real", "double", "float", "bigint">>

isNumeric(m) ==
    \E i \in 1..Len(numericTypes) : includes(toLowerCase(m.type), numericTypes[i])

\* Array.prototype.find: <<>> when nothing matches, else <<the first match>>
findFirst(mappings, Test(_)) ==
    LET hits == {i \in 1..Len(mappings) : Test(mappings[i])} IN
    IF hits = {} THEN <<>>
    ELSE <<mappings[CHOOSE i \in hits : \A j \in hits : i <= j]>>

findByKeyword(mappings, keywords, numericOnly) ==
    LET found(k) ==
            LET Test(m) ==
                    /\ \/ includes(toLowerCase(m.column), keywords[k])
                       \/ includes(toLowerCase(m.table), keywords[k])
                    /\ numericOnly => isNumeric(m)
            IN  findFirst(mappings, Test)
        matching == {k \in 1..Len(keywords) : Len(found(k)) > 0}
    IN  IF matching = {} THEN <<>>
        ELSE found(CHOOSE k \in matching : \A j \in matching : k <= j)

findColumn(mappings, keywords) ==
    LET isTimestamp(m) ==
            includes(m.type, "timestamp") \/ includes(m.type, "date")
            \/ includes(m.type, "time")
        timestampColumn ==
            IF \E i \in 1..Len(keywords) : keywords[i] \in {"start", "created", "date", "time"}
            THEN findFirst(mappings, isTimestamp)
            ELSE <<>>
        match == findByKeyword(mappings, keywords, FALSE)
    IN  IF Len(timestampColumn) > 0 THEN timestampColumn
        ELSE IF Len(match) > 0 THEN match
        ELSE IF Len(mappings) > 0 THEN <<mappings[1]>> ELSE <<>>

findNumericColumn(mappings, keywords) ==
    LET match == findByKeyword(mappings, keywords, TRUE) IN
    IF Len(match) > 0 THEN match
    ELSE findFirst(mappings, isNumeric)

stationKeywords == <<"station", "point", "dock", "name", "avenue">>

Clause(text) == [sql |-> text, params |-> <<>>]

buildSelectClause(intent, mappings) ==
    LET avgColumn == findNumericColumn(mappings, <<"time", "duration", "minutes", "hours">>)
        sumColumn == findNumericColumn(mappings, <<"distance", "kilometres", "km", "miles">>)
        maxColumn == findColumn(mappings, stationKeywords)
    IN  IF intent = COUNT THEN Clause("SELECT COUNT(*) as count")
        ELSE IF intent = AVERAGE /\ Len(avgColumn) > 0
        THEN Clause("SELECT ROUND(AVG(EXTRACT(EPOCH FROM (trips.ended_at - trips.started_at))/60)) as average")
        ELSE IF intent = SUM /\ Len(sumColumn) > 0
        THEN Clause("SELECT ROUND(SUM(trips.trip_distance_km)::numeric, 1) as total")
        ELSE IF intent = MAX /\ Len(maxColumn) > 0
        THEN IF includes(maxColumn[1].column, "station") \/ includes(maxColumn[1].column, "id")
             THEN Clause("SELECT stations.station_name, COUNT(*) as count")
             ELSE Clause("SELECT " \o maxColumn[1].table \o "." \o maxColumn[1].column
                         \o ", COUNT(*) as count")
        ELSE IF intent = LIST /\ Len(maxColumn) > 0
        THEN Clause("SELECT " \o maxColumn[1].table \o "." \o maxColumn[1].column)
        ELSE Clause("SELECT *")

\* [...new Set(mappings.map(m => m.table))]
RECURSIVE distinctTables(_, _)
distinctTables(mappings, seen) ==
    IF Len(mappings) = 0 THEN <<>>
    ELSE IF mappings[1].table \in seen THEN distinctTables(Tail(mappings), seen)
    ELSE <<mappings[1].table>>
         \o distinctTables(Tail(mappings), seen \cup {mappings[1].table})

needsStationsOf(q) ==
    LET lowerQuestion == toLowerCase(q) IN
    includes(lowerQuestion, "congress") \/ includes(lowerQuestion, "avenue")
    \/ includes(lowerQuestion, "station") \/ includes(lowerQuestion, "docking")

needsWeatherOf(q) ==
    LET lowerQuestion == toLowerCase(q) IN
    includes(lowerQuestion, "rainy") \/ includes(lowerQuestion, "rain")

buildFromClause(mappings, q) ==
    LET needsStations == needsStationsOf(q)
        needsWeather == needsWeatherOf(q)
        tables == distinctTables(mappings, {})
    IN  IF Len(mappings) = 0
        THEN Clause("FROM trips"
             \o (IF needsWeather
                 THEN " LEFT JOIN daily_weather ON DATE(trips.started_at) = daily_weather.weather_date"
                 ELSE "")
             \o (IF needsStations
                 THEN " LEFT JOIN stations ON trips.start_station_id = stations.id"
                 ELSE ""))
        ELSE IF Len(tables) = 1
        THEN IF needsStations /\ tables[1] # "stations" /\ tables[1] = "trips"
             THEN Clause("FROM trips LEFT JOIN stations ON trips.start_station_id = stations.station_id"
                  \o (IF needsWeather
                      THEN " LEFT JOIN daily_weather ON DATE(trips.start_time) = daily_weather.date"
                      ELSE ""))
             ELSE IF needsStations /\ tables[1] # "stations" /\ tables[1] = "users"
             THEN Clause("FROM users LEFT JOIN trips ON users.id = trips.user_id LEFT JOIN stations ON trips.start_station_id = stations.station_id"
                  \o (IF needsWeather
                      THEN " LEFT JOIN daily_weather ON DATE(trips.started_at) = daily_weather.weather_date"
                      ELSE ""))
             ELSE Clause("FROM " \o tables[1])
        ELSE IF "trips" \in Range(tables)
        THEN Clause("FROM trips"
             \o (IF "stations" \in Range(tables) \/ needsStations
                 THEN " LEFT JOIN stations ON trips.start_station_id = stations.station_id"
                 ELSE "")
             \o (IF "daily_weather" \in Range(tables) \/ needsWeather
                 THEN " LEFT JOIN daily_weather ON DATE(trips.started_at) = daily_weather.weather_date"
                 ELSE ""))
        ELSE IF "stations" \in Range(tables) THEN Clause("FROM stations")
        ELSE Clause("FROM " \o tables[1])

locationTerms == <<"congress avenue", "congress", "avenue">>

\* `$${paramIndex}`; paramIndex stays below 10 (at most five conditions)
placeholder(paramIndex) == "$" \o Ch(Digits, paramIndex + 1)

\* paramIndex without the increment
nextParamIndexStuck(paramIndex) == paramIndex

\* paramIndex++
nextParamIndex(paramIndex) == paramIndex + 1

\* conditions.push(`${before}$${paramIndex++}${after}`)
pushCondition(w, before, after) ==
    [w EXCEPT !.conditions = Append(@, before \o placeholder(w.paramIndex) \o after),
              !.paramIndex = nextParamIndex(@)]

pushParam(w, value) == [w EXCEPT !.params = Append(@, value)]

\* the location loop with the matched term written into the text
locationFilterInlined(w, lowerQuestion) ==
    LET found == {i \in 1..Len(locationTerms) : includes(lowerQuestion, locationTerms[i])}
        term == locationTerms[CHOOSE i \in found : \A j \in found : i <= j]
    IN  IF found # {}
        THEN [w EXCEPT !.conditions =
                           Append(@, "stations.station_name ILIKE '%" \o term \o "%'")]
        ELSE w

\* Location filtering: the loop breaks at the first term found
locationFilter(w, lowerQuestion) ==
    IF \E i \in 1..Len(locationTerms) : includes(lowerQuestion, locationTerms[i])
    THEN pushParam(pushCondition(w, "stations.station_name ILIKE ", ""),
                   StringParam("%Congress Avenue%"))
    ELSE w

\* Date filtering
dateFilter(w, dateRange, tz) ==
    IF Len(dateRange) > 0
    THEN pushParam(pushParam(
             pushCondition(
                 pushCondition(w, "trips.started_at >= ", "::timestamp"),
                 "trips.started_at <= ", "::timestamp"),
             StringParam(toTimestamp(dateRange[1].start, tz))),
             StringParam(toTimestamp(dateRange[1].end, tz)))
    ELSE w

\* the two gender checks without the else
genderFilterBoth(w, lowerQuestion) ==
    LET first == IF includes(lowerQuestion, "women") \/ includes(lowerQuestion, "female")
                 THEN pushParam(pushCondition(w, "trips.rider_gender = ", ""),
                                StringParam("female"))
                 ELSE w
    IN  IF includes(lowerQuestion, "men") \/ includes(lowerQuestion, "male")
        THEN pushParam(pushCondition(first, "trips.rider_gender = ", ""),
                       StringParam("male"))
        ELSE first

\* Gender filtering
genderFilter(w, lowerQuestion) ==
    IF includes(lowerQuestion, "women") \/ includes(lowerQuestion, "female")
    THEN pushParam(pushCondition(w, "trips.rider_gender = ", ""), StringParam("female"))
    ELSE IF includes(lowerQuestion, "men") \/ includes(lowerQuestion, "male")
    THEN pushParam(pushCondition(w, "trips.rider_gender = ", ""), StringParam("male"))
    ELSE w

\* Weather filtering
weatherFilter(w, lowerQuestion) ==
    IF includes(lowerQuestion, "rainy") \/ includes(lowerQuestion, "rain")
    THEN pushParam(pushCondition(w, "daily_weather.precipitation_mm > ", ""),
                   NumberParam("0"))
    ELSE w

\* a WHERE keyword whether or not there is a condition
whereOfAlways(w) == [sql |-> "WHERE " \o join(w.conditions, " AND "), params |-> w.params]

whereOf(w) ==
    IF Len(w.conditions) = 0 THEN [sql |-> "", params |-> <<>>]
    ELSE [sql |-> "WHERE " \o join(w.conditions, " AND "), params |-> w.params]

\* the filters with the location loop run before the others
whereFiltersLocationFirst(w, dateRange, tz, lowerQuestion) ==
    whereOf(weatherFilter(
                genderFilter(dateFilter(locationFilter(w, lowerQuestion), dateRange, tz),
                             lowerQuestion),
                lowerQuestion))

whereFilters(w, dateRange, tz, lowerQuestion) ==
    whereOf(locationFilter(
                weatherFilter(genderFilter(dateFilter(w, dateRange, tz), lowerQuestion),
                              lowerQuestion),
                lowerQuestion))

buildWhereClause(q, e) ==
    whereFilters([conditions |-> <<>>, params |-> <<>>, paramIndex |-> 1],
                 extractDateRange(q, e), e.tz, toLowerCase(q))

buildGroupByClause(intent, mappings) ==
    LET maxColumn == findColumn(mappings, stationKeywords) IN
    IF (intent = MAX \/ intent = COUNT) /\ Len(maxColumn) > 0
    THEN IF includes(maxColumn[1].column, "station") \/ includes(maxColumn[1].column, "id")
         THEN Clause("GROUP BY stations.station_name")
         ELSE Clause("GROUP BY " \o maxColumn[1].table \o "." \o maxColumn[1].column)
    ELSE Clause("")

\* an ordering for both extremes
buildOrderByClauseExtremes(intent) ==
    IF intent = MAX \/ intent = MIN THEN Clause("ORDER BY count DESC LIMIT 1") ELSE Clause("")

buildOrderByClause(intent) ==
    IF intent = MAX THEN Clause("ORDER BY count DESC LIMIT 1") ELSE Clause("")

\* .filter(clause => clause.trim() !== '')
RECURSIVE filterNonBlank(_)
filterNonBlank(clauses) ==
    IF Len(clauses) = 0 THEN <<>>
    ELSE (IF trim(clauses[1]) # "" THEN <<clauses[1]>> ELSE <<>>)
         \o filterNonBlank(Tail(clauses))

\* the clauses joined and their params concatenated
composeSQL(found, intent, selectClause, fromClause, whereClause, groupByClause, orderByClause) ==
    IF found.threw
    THEN [threw |-> TRUE, sql |-> "", params |-> <<>>, cache |-> found.cache,
          intent |-> intent, select |-> "", from |-> "", where |-> "",
          groupBy |-> "", orderBy |-> "", mappings |-> <<>>]
    ELSE [threw |-> FALSE,
          sql |-> join(filterNonBlank(<<selectClause.sql, fromClause.sql,
                                        whereClause.sql, groupByClause.sql,
                                        orderByClause.sql>>), " "),
          params |-> selectClause.params \o fromClause.params \o whereClause.params
                     \o groupByClause.params \o orderByClause.params,
          cache |-> found.cache,
          intent |-> intent, select |-> selectClause.sql, from |-> fromClause.sql,
          where |-> whereClause.sql, groupBy |-> groupByClause.sql,
          orderBy |-> orderByClause.sql, mappings |-> found.mappings]

\* the five clauses of one question, built from its intent and column mappings
buildClauses(found, intent, q, e) ==
    composeSQL(found, intent,
               buildSelectClause(intent, found.mappings),
               buildFromClause(found.mappings, q),
               buildWhereClause(q, e),
               buildGroupByClause(intent, found.mappings),
               buildOrderByClause(intent))

\* generateSQL as a function of the mapper's state, the question and the
\* environment: whether it threw, the compiled query, its clauses and the
\* mapper's cache afterwards
generateSQL(sch, cache, q, e) ==
    buildClauses(findBestColumnMatches(sch, cache, extractUserWords(q), DefaultMinSimilarity),
                 detectIntent(q), q, e)

-----------------------------------------------------------------------------
(* Calls of SQLGenerator.generateSQL on a mapper whose schema is set *)

EmptyCache == <<>>
NoCall == [op |-> "none"]
NoCalls == [p \in 1..MaxCalls |-> [pc |-> "idle"]]

\* the databases the generator runs against and the clocks of their processes
Deployments ==
    {[schema |-> ProductionSchema, env |-> [year |-> 2026, month |-> 1, tz |-> 0]],
     [schema |-> MockSchema, env |-> [year |-> 2024, month |-> 3, tz |-> 5]],
     [schema |-> MinimalSchema, env |-> [year |-> 2025, month |-> 7, tz |-> -2]],
     [schema |-> EmptySchema, env |-> [year |-> 2026, month |-> 1, tz |-> 0]]}

InitGen ==
    /\ \E d \in Deployments : schema = d.schema /\ env = d.env
    /\ columnCache = EmptyCache
    /\ question \in Questions
    /\ lastCall = NoCall
    /\ isInitialized = FALSE
    /\ calls = NoCalls
    /\ fetchCount = 0
    /\ setSchemaCount = 0

CallGenerateSQL ==
    \E r \in {generateSQL(schema, columnCache, question, env)} :
        /\ columnCache' = r.cache
        /\ lastCall' = [op |-> "generateSQL", question |-> question, env |-> env,
                        threw |-> r.threw, sql |-> r.sql, params |-> r.params,
                        intent |-> r.intent, select |-> r.select, from |-> r.from,
                        where |-> r.where, groupBy |-> r.groupBy,
                        orderBy |-> r.orderBy, mappings |-> r.mappings]
        /\ UNCHANGED <<schema, question, env, isInitialized, calls, fetchCount,
                       setSchemaCount>>

NextGen == CallGenerateSQL

SpecGen == InitGen /\ [][NextGen]_vars

-----------------------------------------------------------------------------
(* Direct calls of the SemanticMapper, as the unit tests make them *)

InitMapper ==
    /\ schema = EmptySchema
    /\ columnCache = EmptyCache
    /\ question = ""
    /\ env \in Envs
    /\ lastCall = NoCall
    /\ isInitialized = FALSE
    /\ calls = NoCalls
    /\ fetchCount = 0
    /\ setSchemaCount = 0

\* a setSchema that replaces the snapshot and keeps the cache
setSchemaKeepingCache(sch) ==
    /\ schema' = sch
    /\ UNCHANGED columnCache

\* setSchema: the snapshot is replaced and the cache cleared
setSchema(sch) ==
    /\ schema' = sch
    /\ columnCache' = EmptyCache

CallSetSchema ==
    \E sch \in Schemas :
        /\ setSchema(sch)
        /\ lastCall' = [op |-> "setSchema"]
        /\ UNCHANGED <<question, env, isInitialized, calls, fetchCount, setSchemaCount>>

CallFindBestColumnMatches ==
    \E userWords \in TokenLists, minSimilarity \in MinSimilarities :
        /\ \/ cacheKeyOf(userWords) \in DOMAIN columnCache
           \/ Cardinality(DOMAIN columnCache) < MaxCache
        /\ \E r \in {findBestColumnMatches(schema, columnCache, userWords, minSimilarity)} :
               /\ columnCache' = r.cache
               /\ lastCall' = [op |-> "findBestColumnMatches", userWords |-> userWords,
                               minSimilarity |-> minSimilarity, threw |-> r.threw,
                               mappings |-> r.mappings, hit |-> r.hit,
                               scored |-> r.scored]
        /\ UNCHANGED <<schema, question, env, isInitialized, calls, fetchCount,
                       setSchemaCount>>

NextMapper == CallSetSchema \/ CallFindBestColumnMatches

SpecMapper == InitMapper /\ [][NextMapper]_vars

-----------------------------------------------------------------------------
(* QueryService.  A call is a promise chain: it runs from one await to the
   next in one step.  calls[p].pc names the await the call is suspended at. *)

\* what the collaborators can answer
FetchedSchemas == {ProductionSchema, MinimalSchema}
FetchErrors == {"connect ECONNREFUSED"}
ExecuteErrors == {"relation \"stations\" does not exist"}

NumberValue(n) == [type |-> "number", text |-> "", numeric |-> TRUE, num |-> n]
NumericString(t, n) == [type |-> "string", text |-> t, numeric |-> TRUE, num |-> n]
TextValue(t) == [type |-> "string", text |-> t, numeric |-> FALSE, num |-> 0]

\* row sets of executeQuery: a row is its <<column, value>> pairs in
\* Object.keys order; numbers are in hundredths
RowSets ==
    {<<>>,
     <<<< <<"count", NumericString("42", 4200)>> >>>>,
     <<<< <<"station_name", TextValue("Congress Avenue")>>,
          <<"count", NumericString("17", 1700)>> >>,
       << <<"station_name", TextValue("Barton Springs")>>,
          <<"count", NumericString("9", 900)>> >>>>}

\* the clock of the service's process
ServiceEnvs == {e \in Envs : e.year = 2026}

ServiceQuestions == {"", "   ", "How many trips", "constructor"}

NullResult == [type |-> "null"]
NoError == <<>>

EmptyQuestionError == "Question cannot be empty"
NoSqlError == "Unable to generate SQL query from the question"

formatResult(rows, q) ==
    LET lowerQuestion == toLowerCase(q)
        value == rows[1][1][2]
    IN  IF Len(rows) = 0 THEN NullResult
        ELSE IF Len(rows) = 1 /\ Len(rows[1]) = 1
        THEN IF includes(lowerQuestion, "average") /\ value.type = "number"
             THEN \* Math.round(value)
                  [type |-> "value", value |-> NumberValue(((value.num + 50) \div 100) * 100)]
             ELSE IF includes(lowerQuestion, "kilometres") \/ includes(lowerQuestion, "km")
             THEN \* parseFloat(Number(value).toFixed(1))
                  IF value.numeric
                  THEN [type |-> "value",
                        value |-> NumberValue(((value.num + 5) \div 10) * 10)]
                  ELSE [type |-> "NaN"]
             ELSE [type |-> "value", value |-> value]
        ELSE IF Len(rows) = 1 /\ value.type = "string"
        THEN [type |-> "value", value |-> value]
        ELSE [type |-> "rows", rows |-> rows]

Response(sql, result, error) == [sql |-> sql, result |-> result, error |-> error]

\* a thrown value: an Error with its message, or something else
Failure(message) == [isError |-> TRUE, message |-> message]
NotIterableMessage == "synonyms is not iterable"
UnknownErrorMessage == "An error occurred while processing the query"

\* a call that has returned its response
Returned(c, response) == [c EXCEPT !.pc = "done", !.outcome = "returned", !.response = response]

\* processQuery without its catch block: the promise rejects
rethrow(c, error) == [c EXCEPT !.pc = "done", !.outcome = "rejected", !.raised = <<error>>]

\* the catch block of processQuery
catchError(c, error) ==
    Returned([c EXCEPT !.raised = <<error>>],
             Response("", NullResult,
                      <<IF error.isError THEN error.message ELSE UnknownErrorMessage>>))

\* initialize() does not return early
SkipNever == FALSE

\* if (this.isInitialized) return;
SkipInitialize == isInitialized

\* a fresh call
NewCall(kind, q) ==
    [pc |-> "idle", kind |-> kind, question |-> q, initializedAtStart |-> isInitialized,
     outcome |-> "pending", response |-> Response("", NullResult, NoError),
     generated |-> FALSE, executed |-> FALSE, fetched |-> FALSE, sql |-> "", params |-> <<>>,
     raised |-> <<>>]

\* processQuery once generateSQL has returned or thrown: the call afterwards
\* and the mapper's cache afterwards
afterGenerateSQL(g, r) ==
    IF r.threw
    THEN [call |-> catchError(g, Failure(NotIterableMessage)), cache |-> r.cache]
    ELSE IF r.sql = "" \/ Len(trim(r.sql)) = 0
    THEN [call |-> Returned(g, Response("", NullResult, <<NoSqlError>>)), cache |-> r.cache]
    ELSE [call |-> [g EXCEPT !.pc = "executeQuery", !.executed = TRUE,
                             !.sql = r.sql, !.params = r.params],
          cache |-> r.cache]

\* the body of processQuery after the initialisation: the call afterwards and
\* the mapper's cache afterwards
afterInitialize(c, e) ==
    IF c.question = "" \/ Len(trim(c.question)) = 0
    THEN [call |-> Returned(c, Response("", NullResult, <<EmptyQuestionError>>)),
          cache |-> columnCache]
    ELSE afterGenerateSQL([c EXCEPT !.generated = TRUE],
                          generateSQL(schema, columnCache, c.question, e))

Init ==
    /\ schema = EmptySchema
    /\ columnCache = EmptyCache
    /\ isInitialized = FALSE
    /\ calls = NoCalls
    /\ fetchCount = 0
    /\ setSchemaCount = 0
    /\ question = ""
    /\ env \in ServiceEnvs
    /\ lastCall = NoCall

\* initialize(): returns at once when initialised, else awaits getSchema()
CallInitialize(p) ==
    /\ calls[p].pc = "idle"
    /\ IF SkipInitialize
       THEN /\ calls' = [calls EXCEPT ![p] =
                            [NewCall("initialize", "") EXCEPT !.pc = "done",
                                                              !.outcome = "resolved"]]
            /\ UNCHANGED fetchCount
       ELSE /\ calls' = [calls EXCEPT ![p] =
                            [NewCall("initialize", "") EXCEPT !.pc = "getSchema",
                                                              !.fetched = TRUE]]
            /\ fetchCount' = fetchCount + 1
    /\ UNCHANGED <<schema, columnCache, isInitialized, setSchemaCount, question, env,
                   lastCall>>

\* processQuery(question) up to its first await: the await of initialize()
\* when not initialised, else the await of executeQuery (or its return)
processQuery(p, c) ==
    IF ~isInitialized
    THEN /\ calls' = [calls EXCEPT ![p] = [c EXCEPT !.pc = "getSchema", !.fetched = TRUE]]
         /\ fetchCount' = fetchCount + 1
         /\ UNCHANGED columnCache
    ELSE \E r \in {afterInitialize(c, env)} :
             /\ calls' = [calls EXCEPT ![p] = r.call]
             /\ columnCache' = r.cache
             /\ UNCHANGED fetchCount

\* a direct call of processQuery(question)
CallProcessQuery(p) ==
    \E q \in ServiceQuestions :
        /\ calls[p].pc = "idle"
        /\ processQuery(p, NewCall("processQuery", q))
        /\ UNCHANGED <<schema, isInitialized, setSchemaCount, question, env, lastCall>>

\* getSchema() resolves: initialize() sets the schema and the flag
GetSchemaResolves(p) ==
    \E sch \in FetchedSchemas :
        /\ calls[p].pc = "getSchema"
        /\ setSchema(sch)
        /\ setSchemaCount' = setSchemaCount + 1
        /\ isInitialized' = TRUE
        /\ calls' = [calls EXCEPT ![p] =
                        IF calls[p].kind = "initialize"
                        THEN [@ EXCEPT !.pc = "done", !.outcome = "resolved"]
                        ELSE [@ EXCEPT !.pc = "initialized"]]
        /\ UNCHANGED <<fetchCount, question, env, lastCall>>

\* getSchema() rejects: initialize() rethrows; processQuery catches
GetSchemaRejects(p) ==
    \E message \in FetchErrors :
        /\ calls[p].pc = "getSchema"
        /\ calls' = [calls EXCEPT ![p] =
                        IF calls[p].kind = "initialize"
                        THEN [@ EXCEPT !.pc = "done", !.outcome = "rejected",
                                       !.raised = <<Failure(message)>>]
                        ELSE catchError(@, Failure(message))]
        /\ UNCHANGED <<schema, columnCache, isInitialized, fetchCount, setSchemaCount,
                       question, env, lastCall>>

\* processQuery continues after its await of initialize()
ResumeProcessQuery(p) ==
    /\ calls[p].pc = "initialized"
    /\ \E r \in {afterInitialize(calls[p], env)} :
           /\ calls' = [calls EXCEPT ![p] = r.call]
           /\ columnCache' = r.cache
    /\ UNCHANGED <<schema, isInitialized, fetchCount, setSchemaCount, question, env,
                   lastCall>>

ExecuteQueryResolves(p) ==
    \E rows \in RowSets :
        /\ calls[p].pc = "executeQuery"
        /\ calls' = [calls EXCEPT ![p] =
                        Returned(@, Response(@.sql, formatResult(rows, @.question), NoError))]
        /\ UNCHANGED <<schema, columnCache, isInitialized, fetchCount, setSchemaCount,
                       question, env, lastCall>>

ExecuteQueryRejects(p) ==
    \E message \in ExecuteErrors :
        /\ calls[p].pc = "executeQuery"
        /\ calls' = [calls EXCEPT ![p] = catchError(@, Failure(message))]
        /\ UNCHANGED <<schema, columnCache, isInitialized, fetchCount, setSchemaCount,
                       question, env, lastCall>>

Next ==
    \E p \in 1..MaxCalls :
        \/ CallInitialize(p)
        \/ CallProcessQuery(p)
        \/ GetSchemaResolves(p)
        \/ GetSchemaRejects(p)
        \/ ResumeProcessQuery(p)
        \/ ExecuteQueryResolves(p)
        \/ ExecuteQueryRejects(p)

Spec == Init /\ [][Next]_vars

-----------------------------------------------------------------------------
(* The HTTP server (server.ts).  Slot 0 of calls is startServer's await of
   initialize(), begun when the module is loaded; the other slots are
   POST /query requests handed to the app: through the port once it listens,
   or to the exported app object as the acceptance tests do. *)

BadRequestError == "Question is required and must be a string"

\* the JSON values of req.body.question; <<>> is a body without the field
JsonString(t) == [type |-> "string", text |-> t, num |-> 0]
JsonNumber(n) == [type |-> "number", text |-> "", num |-> n]
JsonNull == [type |-> "null", text |-> "", num |-> 0]

Bodies ==
    {<<>>, <<JsonString("")>>, <<JsonNumber(0)>>, <<JsonNumber(42)>>, <<JsonNull>>,
     <<JsonString("   ")>>, <<JsonString("How many trips")>>}

\* !question
isFalsy(body) ==
    \/ body = <<>>
    \/ body[1].type = "null"
    \/ body[1].type = "string" /\ body[1].text = ""
    \/ body[1].type = "number" /\ body[1].num = 0

\* a validation that only asks for the field to be there
rejectsMissingOnly(body) == body = <<>>

\* !question || typeof question !== 'string'
rejectsQuestion(body) == isFalsy(body) \/ body[1].type # "string"

\* process.exit(1) has run
Exited == calls[0].outcome = "rejected"

\* a request: the processQuery call it may make, its body, whether
\* processQuery was invoked for it and the status it was answered with (0: not yet)
Request(c, body, invoked) ==
    c @@ [body |-> body, invoked |-> invoked, status |-> 0]

\* res.status(status).json(response)
Responded(c, status, response) ==
    [c EXCEPT !.pc = "responded", !.status = status, !.response = response]

InitServer ==
    /\ schema = EmptySchema
    /\ columnCache = EmptyCache
    /\ isInitialized = FALSE
    /\ calls = [p \in 0..MaxCalls |->
                   IF p = 0
                   THEN [NewCall("initialize", "") EXCEPT !.pc = "getSchema",
                                                          !.fetched = TRUE,
                                                          !.initializedAtStart = FALSE]
                   ELSE [pc |-> "idle"]]
    /\ fetchCount = 1
    /\ setSchemaCount = 0
    /\ question = ""
    /\ env \in ServiceEnvs
    /\ lastCall = NoCall

\* app.post('/query') up to its first await; requests take the slots in order
PostQuery(p) ==
    \E body \in Bodies :
        /\ calls[p].pc = "idle"
        /\ \A earlier \in 1..(p - 1) : calls[earlier].pc # "idle"
        /\ IF rejectsQuestion(body)
           THEN /\ calls' = [calls EXCEPT ![p] =
                                Responded(Request(NewCall("POST /query", ""), body, FALSE),
                                          400,
                                          Response("", NullResult, <<BadRequestError>>))]
                /\ UNCHANGED <<columnCache, fetchCount>>
           ELSE processQuery(p, Request(NewCall("POST /query", body[1].text), body, TRUE))
        /\ UNCHANGED <<schema, isInitialized, setSchemaCount, question, env, lastCall>>

\* the handler after its await of processQuery
Respond(p) ==
    /\ calls[p].pc = "done"
    /\ calls' = [calls EXCEPT ![p] =
                    Responded(@, IF @.response.error # NoError THEN 500 ELSE 200,
                              @.response)]
    /\ UNCHANGED <<schema, columnCache, isInitialized, fetchCount, setSchemaCount,
                   question, env, lastCall>>

\* startServer's await of initialize() resolves: app.listen
StartupResolves == GetSchemaResolves(0)

\* startServer's await of initialize() rejects: process.exit(1) ends every
\* request in flight and no further request is handled
StartupRejects ==
    \E message \in FetchErrors :
        /\ calls[0].pc = "getSchema"
        /\ calls' = [p \in 0..MaxCalls |->
                        IF p = 0
                        THEN [calls[0] EXCEPT !.pc = "done", !.outcome = "rejected",
                                              !.raised = <<Failure(message)>>]
                        ELSE IF calls[p].pc = "responded" THEN calls[p]
                        ELSE [calls[p] EXCEPT !.pc = "exited"]]
        /\ UNCHANGED <<schema, columnCache, isInitialized, fetchCount, setSchemaCount,
                       question, env, lastCall>>

NextServer ==
    \/ \E p \in 1..MaxCalls :
           \/ PostQuery(p)
           \/ GetSchemaResolves(p)
           \/ GetSchemaRejects(p)
           \/ ResumeProcessQuery(p)
           \/ ExecuteQueryResolves(p)
           \/ ExecuteQueryRejects(p)
           \/ Respond(p)
    \/ StartupResolves
    \/ StartupRejects

SpecServer == InitServer /\ [][NextServer]_vars

-----------------------------------------------------------------------------
(* Direct calls of the two shaping functions: SQLGenerator.buildWhereClause
   with its extractDateRange, and QueryService.formatResult *)

\* the clocks and time zones of the calling process
DateEnvs == [year : {2024, 2025}, month : 1..12, tz : {-2, 0, 5}]

DateQuestions ==
    {"", "trips last month", "Trips LAST MONTH in June 2025", "first week of June 2025",
     "in June 2025", "in June", "in June 2024", "in July 2025",
     "first week of July 2025", "first week", "last week"}

FormatQuestions == {"How many trips", "average ride time", "kilometres ridden"}

\* row sets of executeQuery beyond RowSets: one row of one or two columns
FormatRowSets ==
    RowSets
    \cup {<<<< <<"average", NumberValue(1234)>> >>>>,
          <<<< <<"station_name", TextValue("Congress Avenue")>> >>>>,
          <<<< <<"count", NumericString("17", 1700)>>,
               <<"station_name", TextValue("Congress Avenue")>> >>>>,
          <<<< <<"trip_distance_km", NumberValue(1234)>>,
               <<"rider_gender", TextValue("female")>> >>>>,
          <<<< <<"station_name", TextValue("Congress Avenue")>>,
               <<"count", NumericString("17", 1700)>> >>>>}

InitShaping ==
    /\ schema = EmptySchema
    /\ columnCache = EmptyCache
    /\ question \in DateQuestions \cup FormatQuestions
    /\ env \in DateEnvs
    /\ lastCall = NoCall
    /\ isInitialized = FALSE
    /\ calls = NoCalls
    /\ fetchCount = 0
    /\ setSchemaCount = 0

CallBuildWhereClause ==
    \E r \in {buildWhereClause(question, env)} :
        /\ lastCall' = [op |-> "buildWhereClause", question |-> question, env |-> env,
                        dateRange |-> extractDateRange(question, env),
                        where |-> r.sql, params |-> r.params]
        /\ UNCHANGED <<schema, columnCache, question, env, isInitialized, calls,
                       fetchCount, setSchemaCount>>

CallFormatResult ==
    \E rows \in FormatRowSets :
        /\ lastCall' = [op |-> "formatResult", question |-> question, rows |-> rows,
                        result |-> formatResult(rows, question)]
        /\ UNCHANGED <<schema, columnCache, question, env, isInitialized, calls,
                       fetchCount, setSchemaCount>>

NextShaping == CallBuildWhereClause \/ CallFormatResult

SpecShaping == InitShaping /\ [][NextShaping]_vars

-----------------------------------------------------------------------------
(* Properties of SQLGenerator.generateSQL (SpecGen) *)

\* the words and the punctuation of the generator's template strings
FixedWords ==
    {"SELECT", "COUNT", "as", "count", "ROUND", "AVG", "EXTRACT", "EPOCH", "FROM",
     "trips", "ended_at", "started_at", "60", "average", "SUM", "trip_distance_km",
     "numeric", "1", "total", "stations", "station_name", "LEFT", "JOIN", "ON",
     "daily_weather", "DATE", "weather_date", "start_station_id", "station_id", "id",
     "start_time", "date", "users", "user_id", "WHERE", "AND", "timestamp",
     "rider_gender", "precipitation_mm", "ILIKE", "GROUP", "BY", "ORDER", "DESC",
     "LIMIT", "2", "3", "4", "5"}
FixedPunctuation == {" ", "*", "(", ")", ".", ",", "-", "/", ":", "=", ">", "<", "$"}

ControlKeywords == {"DROP", "DELETE", "UPDATE", "INSERT", "ALTER"}

\* the identifiers of a schema snapshot
identifiersOf(sch) ==
    {col.table : col \in Range(columnsOf(sch))} \cup {col.column : col \in Range(columnsOf(sch))}

\* the maximal runs of word characters of a text
wordsOf(text) ==
    LET isWord(i) == i >= 1 /\ i <= Len(text) /\ Ch(text, i) \in WordChars
        starts == {i \in 1..Len(text) : isWord(i) /\ ~isWord(i - 1)}
        ends == {i \in 1..Len(text) : isWord(i) /\ ~isWord(i + 1)}
    IN  {SubSeq(text, i, CHOOSE e \in ends : e >= i /\ \A f \in ends : f >= i => e <= f) :
            i \in starts}

Generated == lastCall.op = "generateSQL" /\ ~lastCall.threw

\* C1: the compiled sql has exactly as many placeholders as params has
\* entries, the placeholders read $1..$n in order of appearance, and the
\* condition each $i closes is the one params[i] was pushed for: a timestamp
\* bound, a gender, the precipitation threshold, the station name pattern.
PlaceholdersMatchParams ==
    Generated =>
        LET sql == lastCall.sql
            params == lastCall.params
            at == {i \in 1..Len(sql) : Ch(sql, i) = "$"}
            ordinal(i) == Cardinality({j \in at : j <= i})
            closes(i, text) == i > Len(text) /\ SubSeq(sql, i - Len(text), i - 1) = text
        IN  /\ Cardinality(at) = Len(params)
            /\ \A i \in at :
                   /\ i < Len(sql)
                   /\ Ch(sql, i + 1) = Ch("123456789", ordinal(i))
                   /\ i + 1 < Len(sql) => Ch(sql, i + 2) \notin CharsOf(Digits)
                   /\ \/ /\ closes(i, ".started_at >= ") \/ closes(i, ".started_at <= ")
                         /\ SubSeq(sql, i + 2, i + 12) = "::timestamp"
                         /\ params[ordinal(i)].kind = "string"
                         /\ Len(params[ordinal(i)].text) = Len("2025-06-01 00:00:00")
                      \/ /\ closes(i, ".rider_gender = ")
                         /\ params[ordinal(i)] \in {StringParam("female"), StringParam("male")}
                      \/ /\ closes(i, ".precipitation_mm > ")
                         /\ params[ordinal(i)] = NumberParam("0")
                      \/ /\ closes(i, ".station_name ILIKE ")
                         /\ params[ordinal(i)] = StringParam("%Congress Avenue%")

\* C1 witness: a compiled query with a date range and a gender filter
ThreePlaceholders ==
    Generated /\ Len(lastCall.params) = 3 /\ lastCall.params[3] = StringParam("female")

numbered(predicates) ==
    [i \in 1..Len(predicates) |->
        predicates[i][1] \o "$" \o Ch(Digits, i + 1) \o predicates[i][2]]

JoinsFollowNeeds ==
    Generated =>
        LET lowerQuestion == toLowerCase(lastCall.question) IN
        /\ (\E t \in {"station", "docking", "avenue", "congress"} :
                includes(lowerQuestion, t))
               => includes(lastCall.from, "LEFT JOIN stations")
        /\ (\E t \in {"rain", "rainy"} : includes(lowerQuestion, t))
               => includes(lastCall.from, "LEFT JOIN daily_weather")

startsWith(s, prefix) == Len(s) >= Len(prefix) /\ SubSeq(s, 1, Len(prefix)) = prefix

\* C14 (as stated): every call of generateSQL returns, and returns a non-empty
\* text made of a SELECT fragment, a FROM fragment and then, each optional and
\* in this order, a WHERE, a GROUP BY and an ORDER BY fragment.
GenerateSQLNeverRaises ==
    lastCall.op = "generateSQL" =>
        /\ ~lastCall.threw
        /\ lastCall.sql # ""
        /\ startsWith(lastCall.select, "SELECT ")
        /\ startsWith(lastCall.from, "FROM ")
        /\ lastCall.where = "" \/ startsWith(lastCall.where, "WHERE ")
        /\ lastCall.groupBy = "" \/ startsWith(lastCall.groupBy, "GROUP BY ")
        /\ lastCall.orderBy = "" \/ startsWith(lastCall.orderBy, "ORDER BY ")
        /\ lastCall.sql =
               lastCall.select \o " " \o lastCall.from
               \o (IF lastCall.where = "" THEN "" ELSE " " \o lastCall.where)
               \o (IF lastCall.groupBy = "" THEN "" ELSE " " \o lastCall.groupBy)
               \o (IF lastCall.orderBy = "" THEN "" ELSE " " \o lastCall.orderBy)

\* a question with an intent keyword
intentKeywords ==
    {"kilometres", "km", "distance", "miles", "average", "avg", "sum", "total",
     "maximum", "max", "most", "minimum", "min", "least", "count", "how many",
     "which", "what", "list"}

\* a question with a date, gender, weather or location term
filterTerms ==
    {"last month", "june", "women", "female", "men", "male", "rainy", "rain",
     "congress avenue", "congress", "avenue"}

hasTerm(q, terms) == \E t \in terms : includes(toLowerCase(q), t)

\* C15: a question with no intent keyword and no date, gender, weather or
\* location term compiles to 'SELECT * ' followed by its FROM fragment alone,
\* with no params; the FROM fragment starts at trips unless every matched
\* column belongs to other tables, and is 'FROM trips' when nothing is
\* matched and no station is needed; and a compiled query without a filter
\* predicate has no WHERE keyword and no params.
NoVocabularySelectsAll ==
    Generated =>
        /\ (~hasTerm(lastCall.question, intentKeywords)
            /\ ~hasTerm(lastCall.question, filterTerms))
               => /\ lastCall.sql = "SELECT * " \o lastCall.from
                  /\ lastCall.params = <<>>
                  /\ (\A i \in 1..Len(lastCall.mappings) :
                          lastCall.mappings[i].table # "trips")
                         \/ startsWith(lastCall.from, "FROM trips")
                  /\ (lastCall.mappings = <<>> /\ ~needsStationsOf(lastCall.question))
                         => lastCall.from = "FROM trips"
        /\ ~hasTerm(lastCall.question, filterTerms)
               => ~includes(lastCall.sql, "WHERE") /\ lastCall.params = <<>>

\* C15 witness: a question without intent keyword or filter term whose only
\* matched columns belong to stations
NoVocabularyFromStations ==
    /\ Generated
    /\ ~hasTerm(lastCall.question, intentKeywords)
    /\ ~hasTerm(lastCall.question, filterTerms)
    /\ lastCall.sql = "SELECT * FROM stations"

\* C15 (as stated): a question with no intent keyword and no date, gender,
\* weather or location term compiles to 'SELECT * FROM trips' with no params;
\* and a compiled query without a filter predicate has no WHERE keyword and
\* no params.
NoVocabularySelectsAllTrips ==
    Generated =>
        /\ (~hasTerm(lastCall.question, intentKeywords)
            /\ ~hasTerm(lastCall.question, filterTerms))
               => lastCall.sql = "SELECT * FROM trips" /\ lastCall.params = <<>>
        /\ ~hasTerm(lastCall.question, filterTerms)
               => ~includes(lastCall.sql, "WHERE") /\ lastCall.params = <<>>

\* the FROM fragment starts at table t or joins it
inSource(from, t) ==
    \/ from = "FROM " \o t
    \/ startsWith(from, "FROM " \o t \o " ")
    \/ includes(from, " JOIN " \o t \o " ON ")

\* C18 (as stated): every table qualifier (trips, stations, daily_weather) in
\* the SELECT, WHERE or GROUP BY fragment of a compiled query names the FROM
\* table or a table joined in the FROM fragment.
QualifiersAreInSource ==
    Generated =>
        \A t \in {"trips", "stations", "daily_weather"} :
            (\/ includes(lastCall.select, t \o ".")
             \/ includes(lastCall.where, t \o ".")
             \/ includes(lastCall.groupBy, t \o "."))
                => inSource(lastCall.from, t)

\* C19 (as stated): wherever the FROM fragment joins stations the join is on
\* trips.start_station_id = stations.station_id, and wherever it joins
\* daily_weather the join is on DATE(trips.started_at) = daily_weather.weather_date.
JoinPredicatesAreFixed ==
    Generated =>
        /\ includes(lastCall.from, " JOIN stations ")
               => includes(lastCall.from,
                           "LEFT JOIN stations ON trips.start_station_id = stations.station_id")
        /\ includes(lastCall.from, " JOIN daily_weather ")
               => includes(lastCall.from,
                           "LEFT JOIN daily_weather ON DATE(trips.started_at) = daily_weather.weather_date")

\* the column or table name of a match contains one of the keywords
flavored(m, keywords) ==
    \E k \in keywords :
        includes(toLowerCase(m.column), k) \/ includes(toLowerCase(m.table), k)

\* C20 (as stated): the SELECT fragment is the row count for COUNT and
\* 'SELECT *' for FILTER and MIN; for AVERAGE, SUM, MAX and LIST it differs
\* from 'SELECT *' only when the matches hold a qualifying column: a
\* time/duration-flavored one for AVERAGE, a distance-flavored numeric one for
\* SUM, a station/point/name-flavored one for MAX and LIST.
SelectNeedsQualifyingColumn ==
    Generated =>
        LET mappings == lastCall.mappings
            intent == lastCall.intent
            qualifies ==
                \E i \in 1..Len(mappings) :
                    \/ /\ intent = AVERAGE
                       /\ flavored(mappings[i], {"time", "duration", "minutes", "hours"})
                    \/ /\ intent = SUM
                       /\ flavored(mappings[i], {"distance", "kilometres", "km", "miles"})
                       /\ isNumeric(mappings[i])
                    \/ /\ intent \in {MAX, LIST}
                       /\ flavored(mappings[i], {"station", "point", "dock", "name", "avenue"})
        IN  /\ intent = COUNT => lastCall.select = "SELECT COUNT(*) as count"
            /\ intent \in {FILTER, MIN} => lastCall.select = "SELECT *"
            /\ (intent \in {AVERAGE, SUM, MAX, LIST} /\ ~qualifies)
                   => lastCall.select = "SELECT *"

\* C21 (as stated): the GROUP BY fragment is non-empty only for the MAX and
\* COUNT intents and only when the matches hold a station/point/name-flavored
\* column; it then groups by stations.station_name when that column's name
\* contains 'station' or 'id', and by the column itself otherwise.
GroupByNeedsStationColumn ==
    Generated =>
        LET mappings == lastCall.mappings
            qualifying == {i \in 1..Len(mappings) :
                               flavored(mappings[i],
                                        {"station", "point", "dock", "name", "avenue"})}
        IN  lastCall.groupBy # ""
                => /\ lastCall.intent \in {MAX, COUNT}
                   /\ \E i \in qualifying :
                          lastCall.groupBy =
                              IF includes(mappings[i].column, "station")
                                 \/ includes(mappings[i].column, "id")
                              THEN "GROUP BY stations.station_name"
                              ELSE "GROUP BY " \o mappings[i].table \o "."
                                   \o mappings[i].column

\* C22: the ORDER BY fragment of a compiled query is 'ORDER BY count DESC
\* LIMIT 1' when the intent is MAX and empty for every other intent, whatever
\* was matched.
OrderByOnlyForMax ==
    Generated =>
        /\ lastCall.orderBy = IF lastCall.intent = MAX THEN "ORDER BY count DESC LIMIT 1"
                              ELSE ""
        /\ includes(lastCall.sql, "ORDER BY") <=> lastCall.intent = MAX

\* C22 witness: a MAX question compiled with its ordering although nothing
\* was matched
MaxOrderedWithoutMatches ==
    /\ Generated
    /\ lastCall.intent = MAX
    /\ lastCall.mappings = <<>>
    /\ lastCall.orderBy = "ORDER BY count DESC LIMIT 1"

occurrences(s, t) ==
    Cardinality({i \in 1..(Len(s) - Len(t) + 1) : SubSeq(s, i, i + Len(t) - 1) = t})

genderParams(params) ==
    SelectSeq(params, LAMBDA p : p \in {StringParam("female"), StringParam("male")})

rawTokens(q) == splitWhitespace(replaceNonWord(toLowerCase(q)))

\* words has no duplicate, no stop word, no short token, only lower-case word
\* characters, and keeps the order in which its words first occur in tokens
cleanWords(words, tokens) ==
    /\ \A i, j \in 1..Len(words) : i < j =>
           /\ words[i] # words[j]
           /\ indexOf(tokens, words[i]) < indexOf(tokens, words[j])
    /\ \A i \in 1..Len(words) :
           /\ words[i] \notin stopWords
           /\ Len(words[i]) > 2
           /\ indexOf(tokens, words[i]) > 0
           /\ CharsOf(words[i]) \subseteq LowerChars \cup CharsOf(Digits) \cup {"_"}

(* C26: for every question extractUserWords returns a list with no
   duplicates, no stop word, no token of length <= 2, only lower-case word
   characters, in first-seen order of the question; the empty question
   yields the empty list.                                                   *)
UserWordsAreClean ==
    /\ extractUserWords("") = <<>>
    /\ lastCall.op = "generateSQL" =>
           cleanWords(extractUserWords(lastCall.question), rawTokens(lastCall.question))

\* a question with a repeated word, upper-case letters, punctuation and
\* short tokens was tokenised
RepeatedWordKeptOnce ==
    /\ lastCall.op = "generateSQL"
    /\ lastCall.question = "trips '; DROP TABLE trips; --"
    /\ extractUserWords(lastCall.question) = <<"trips", "drop", "table">>
    /\ Len(rawTokens(lastCall.question)) > 3

\* C29 (as stated): whenever the compiled text contains the ordering
\* fragment 'ORDER BY count DESC LIMIT 1', its selection fragment defines the
\* count column with a COUNT-star 'as count' projection; the ordering is
\* never emitted over a 'SELECT *' selection.
OrderedCountIsSelected ==
    Generated /\ includes(lastCall.sql, "ORDER BY count DESC LIMIT 1") =>
        /\ includes(lastCall.select, "COUNT(*) as count")
        /\ lastCall.select # "SELECT *"
        /\ ~startsWith(lastCall.sql, "SELECT * ")

-----------------------------------------------------------------------------
(* Properties of SemanticMapper.findBestColumnMatches (SpecMapper) *)

Matched == lastCall.op = "findBestColumnMatches" /\ ~lastCall.threw

isPermutation(a, b) ==
    /\ Len(a) = Len(b)
    /\ \A x \in Range(a) \cup Range(b) :
           Cardinality({i \in 1..Len(a) : a[i] = x}) = Cardinality({i \in 1..Len(b) : b[i] = x})

\* C8: a call of findBestColumnMatches leaves every cache entry as it is; a
\* call that returns stores or finds its list under its key; and a call whose
\* key is already cached computes no score and returns the cached list.
CachedCallsAreIdempotent ==
    [][lastCall'.op = "findBestColumnMatches" =>
           LET cacheKey == cacheKeyOf(lastCall'.userWords) IN
           /\ \A k \in DOMAIN columnCache :
                  k \in DOMAIN columnCache' /\ columnCache'[k] = columnCache[k]
           /\ ~lastCall'.threw => /\ cacheKey \in DOMAIN columnCache'
                                  /\ columnCache'[cacheKey] = lastCall'.mappings
           /\ cacheKey \in DOMAIN columnCache =>
                  /\ ~lastCall'.threw
                  /\ lastCall'.scored = 0
                  /\ lastCall'.mappings = columnCache[cacheKey]]_vars

\* C8 witness: a call answered from the cache with a non-empty list
AnsweredFromCache == Matched /\ lastCall.hit /\ Len(lastCall.mappings) > 0

\* C9 (as stated): a call whose token list is a permutation of a token list
\* already cached is a cache hit and returns that entry.
PermutedTokensHit ==
    [][lastCall'.op = "findBestColumnMatches" =>
           \A t \in TokenLists :
               (isPermutation(t, lastCall'.userWords) /\ cacheKeyOf(t) \in DOMAIN columnCache)
                   => /\ lastCall'.hit
                      /\ lastCall'.mappings = columnCache[cacheKeyOf(t)]]_vars

\* C10 (as stated): every element of a returned list has a similarity of at
\* least the minSimilarity of the call that returned it.
ReturnedAboveThreshold ==
    Matched =>
        \A i \in 1..Len(lastCall.mappings) :
            RatGeq(lastCall.mappings[i].similarity, lastCall.minSimilarity)

\* every candidate in discovery order (table, then column, then token), whatever
\* its score
discovered(sch, userWords) == matchColumns(columnsOf(sch), userWords, Rat(0, 1))

withSimilarity(mappings, s) == SelectSeq(mappings, LAMBDA m : m.similarity = s)

\* C11: a returned list is in non-increasing similarity order, its elements of
\* one similarity are in the order the loops discovered them, and with an
\* empty schema the list is empty.
SortedBySimilarity ==
    Matched =>
        LET mappings == lastCall.mappings IN
        /\ \A i \in 1..(Len(mappings) - 1) :
               RatGeq(mappings[i].similarity, mappings[i + 1].similarity)
        /\ \A i \in 1..Len(mappings) :
               withSimilarity(mappings, mappings[i].similarity)
                   = withSimilarity(discovered(schema, lastCall.userWords),
                                    mappings[i].similarity)
        /\ schema = EmptySchema => mappings = <<>>

\* C11 witness: a returned list that the sort reordered and that holds two
\* different columns of one similarity
SortReorderedWithTies ==
    /\ Matched
    /\ \E i, j \in 1..Len(lastCall.mappings) :
           /\ i < j
           /\ lastCall.mappings[i] # lastCall.mappings[j]
           /\ lastCall.mappings[i].similarity = lastCall.mappings[j].similarity
    /\ lastCall.mappings
           # matchColumns(columnsOf(schema), lastCall.userWords, lastCall.minSimilarity)


\* the (table, column) pairs of a schema and of a list of mappings
schemaColumns(sch) == {<<c.table, c.column>> : c \in Range(columnsOf(sch))}
mappedColumns(mappings) == {<<m.table, m.column>> : m \in Range(mappings)}

(* C27: replacing the schema empties the match cache in the same step; after
   any sequence of setSchema and findBestColumnMatches calls a match result
   contains only columns of the schema current at the call, and is a result
   computed against that schema, never one computed against an earlier one. *)
MatchesAreOfCurrentSchema ==
    /\ lastCall.op = "setSchema" => columnCache = EmptyCache
    /\ \A k \in DOMAIN columnCache :
           mappedColumns(columnCache[k]) \subseteq schemaColumns(schema)
    /\ Matched =>
           /\ mappedColumns(lastCall.mappings) \subseteq schemaColumns(schema)
           /\ \E ms \in MinSimilarities :
                  lastCall.mappings =
                      findBestColumnMatches(schema, EmptyCache, lastCall.userWords, ms).mappings

\* a cached match list was served under a schema that replaced the initial one
CachedMatchOfReplacedSchema ==
    /\ Matched
    /\ lastCall.hit
    /\ schema = MockSchema
    /\ lastCall.userWords = <<"station">>
    /\ mappedColumns(lastCall.mappings) = {<<"trips", "start_station_name">>}

(* C28 (as stated): the synonym table of getSynonyms is bidirectional: if b
   is a synonym of a then a is a synonym of b; taken over the words handed
   to findBestColumnMatches.                                                *)
SynonymsAreBidirectional ==
    Matched =>
        \A a \in Range(lastCall.userWords) :
            getSynonyms(a) # NotIterable =>
                \A b \in Range(getSynonyms(a)) : a \in Range(getSynonyms(b))
-----------------------------------------------------------------------------
(* Properties of QueryService (Spec) *)

Finished(p) == calls[p].pc = "done" /\ calls[p].kind = "processQuery"

\* C3 (as stated): no two schema fetches are in flight at once, and the
\* schema snapshot is set at most once.
InitializationIsSingleFlight ==
    /\ Cardinality({p \in 1..MaxCalls : calls[p].pc = "getSchema"}) <= 1
    /\ setSchemaCount <= 1

\* C4: a call made once the service is initialised invokes neither getSchema
\* nor setSchema: its steps leave the schema snapshot as it is and every
\* entry of the column-match cache in place, and an initialize call resolves
\* at once and changes nothing.
LaterCallsDoNotInitialize ==
    [][\A p \in 1..MaxCalls :
           (calls'[p] # calls[p] /\ calls'[p].initializedAtStart) =>
               /\ ~calls'[p].fetched
               /\ fetchCount' = fetchCount
               /\ setSchemaCount' = setSchemaCount
               /\ schema' = schema
               /\ isInitialized'
               /\ \A k \in DOMAIN columnCache :
                      k \in DOMAIN columnCache' /\ columnCache'[k] = columnCache[k]
               /\ calls'[p].kind = "initialize" =>
                      /\ calls'[p].pc = "done" /\ calls'[p].outcome = "resolved"
                      /\ columnCache' = columnCache]_vars

\* C4 witness: a processQuery call made after the initialisation has compiled
\* its question and finished
LaterCallFinished ==
    \E p \in 1..MaxCalls :
        Finished(p) /\ calls[p].initializedAtStart /\ calls[p].generated

\* C5 (as stated): a processQuery call whose question trims to nothing
\* returns sql '', result null and the error 'Question cannot be empty', and
\* has invoked neither generateSQL nor executeQuery.
EmptyQuestionIsRejected ==
    \A p \in 1..MaxCalls :
        (Finished(p) /\ Len(trim(calls[p].question)) = 0) =>
            /\ calls[p].outcome = "returned"
            /\ calls[p].response = Response("", NullResult, <<EmptyQuestionError>>)
            /\ ~calls[p].generated
            /\ ~calls[p].executed

\* C6: a finished processQuery call has returned a response, never rejected;
\* when something was thrown inside it (by getSchema, generateSQL or
\* executeQuery) the error is the thrown Error's message; a response with an
\* error has sql '' and result null; a response without one carries the
\* non-empty compiled sql that was executed.
ProcessQueryNeverThrows ==
    \A p \in 1..MaxCalls :
        Finished(p) =>
            /\ calls[p].outcome = "returned"
            /\ calls[p].raised # <<>> =>
                   calls[p].response.error = <<calls[p].raised[1].message>>
            /\ calls[p].response.error # NoError =>
                   /\ calls[p].response.sql = ""
                   /\ calls[p].response.result = NullResult
            /\ calls[p].response.error = NoError =>
                   /\ calls[p].executed
                   /\ calls[p].response.sql = calls[p].sql
                   /\ Len(calls[p].response.sql) > 0

\* C6 witness: the executor failed on a compiled query and the call returned
ExecutorFailureReturned ==
    \E p \in 1..MaxCalls :
        /\ Finished(p) /\ calls[p].executed /\ calls[p].raised # <<>>
        /\ calls[p].response.error \in {<<m>> : m \in ExecuteErrors}

-----------------------------------------------------------------------------
(* Properties of the HTTP server (SpecServer) *)

\* slot p holds a request the handler has taken
isRequest(p) == "body" \in DOMAIN calls[p]

\* C16: a POST /query request whose body has no question, an empty question
\* or a question that is not a string is answered with status 400, a null
\* result and an error, and processQuery is not invoked for it.
BadQuestionIs400 ==
    \A p \in 1..MaxCalls :
        isRequest(p) =>
            LET c == calls[p] IN
            (c.body = <<>> \/ c.body[1].type # "string" \/ c.body[1].text = "")
                => /\ c.pc = "responded"
                   /\ c.status = 400
                   /\ c.response.result = NullResult
                   /\ c.response.error # NoError
                   /\ ~c.invoked
                   /\ ~c.fetched /\ ~c.generated /\ ~c.executed

\* C16 witness: a question that is a non-zero number answered with 400 after
\* another request was answered with 200
NumberQuestionIs400 ==
    \E p, r \in 1..MaxCalls :
        /\ isRequest(p) /\ isRequest(r)
        /\ calls[p].body = <<JsonNumber(42)>> /\ calls[p].status = 400
        /\ calls[r].status = 200

\* C17 (as stated): no request is answered with the schema fetch's failure as
\* its error, and in a process whose startup initialisation failed no
\* question was compiled or executed.
StartupFailureIsFatal ==
    /\ \A p \in 1..MaxCalls :
           isRequest(p) => calls[p].response.error \notin {<<m>> : m \in FetchErrors}
    /\ Exited => \A p \in 1..MaxCalls :
                     isRequest(p) => ~calls[p].generated /\ ~calls[p].executed

-----------------------------------------------------------------------------
(* Properties of the shaping functions (SpecShaping) *)

monthNames ==
    <<"january", "february", "march", "april", "may", "june", "july", "august",
      "september", "october", "november", "december">>

namedMonths(q) == {m \in 1..12 : includes(toLowerCase(q), monthNames[m])}

namedYears(q) == {y \in 2024..2026 : includes(q, padStart(y, 4))}

\* C24 (as stated): 'last month' gives the whole previous calendar month;
\* otherwise 'first week' with a named month gives days 1 to 7 of that month;
\* otherwise a named month with a year gives that whole month; any other
\* phrasing gives no range, and then the filter has no date predicate and no
\* date parameter.
DateRangeByPriority ==
    lastCall.op = "buildWhereClause" =>
        LET q == lastCall.question
            e == lastCall.env
            range == lastCall.dateRange
            months == namedMonths(q)
            years == namedYears(q)
            y == IF e.month = 1 THEN e.year - 1 ELSE e.year
            m == IF e.month = 1 THEN 12 ELSE e.month - 1
        IN  IF includes(toLowerCase(q), "last month")
            THEN range = <<[start |-> <<y, m, 1, 0, 0, 0>>,
                            end |-> <<y, m, daysInMonth(y, m), 23, 59, 59>>]>>
            ELSE IF includes(toLowerCase(q), "first week") /\ months # {}
            THEN /\ Len(range) = 1
                 /\ \E month \in months :
                        /\ SubSeq(range[1].start, 2, 6) = <<month, 1, 0, 0, 0>>
                        /\ SubSeq(range[1].end, 2, 6) = <<month, 7, 23, 59, 59>>
                 /\ years # {} => range[1].start[1] \in years /\ range[1].end[1] \in years
            ELSE IF months # {} /\ years # {}
            THEN \E month \in months, year \in years :
                     range = <<[start |-> <<year, month, 1, 0, 0, 0>>,
                                end |-> <<year, month, daysInMonth(year, month),
                                          23, 59, 59>>]>>
            ELSE /\ range = <<>>
                 /\ ~includes(lastCall.where, "trips.started_at")
                 /\ lastCall.params = <<>>


\* the row set formatResult was given is one row with one column
singleValue(rows) == Len(rows) = 1 /\ Len(rows[1]) = 1

(* C25 (as stated): formatResult collapses a row set to a value only when it
   is a single row with a single column, and returns every other non-empty
   row set (several rows, or one row with several columns) unchanged.        *)
CollapsesOnlySingleValue ==
    lastCall.op = "formatResult" /\ Len(lastCall.rows) > 0 =>
        /\ lastCall.result.type \in {"value", "NaN"} => singleValue(lastCall.rows)
        /\ ~singleValue(lastCall.rows) =>
               lastCall.result = [type |-> "rows", rows |-> lastCall.rows]

====
